---- MODULE Spec2Model ----
(***************************************************************************)
(* Infinity Bank backend: the ledger (routes/transaction.js), the user     *)
(* account (routes/user.js, models/User.js), the loan application and the  *)
(* loan calculator (routes/loan.js, models/Loan.js) and the card           *)
(* application (routes/card.js, models/Card.js) as state machines over the *)
(* document store.                                                         *)
(*                                                                         *)
(* Every request handler is an async function: it runs from one database   *)
(* call to the next without interruption, and other requests run between   *)
(* two of its database calls.  One action of the model is one database     *)
(* call together with the synchronous code that follows it up to the next  *)
(* await (or up to the response).  Each handler works on its own in-memory *)
(* copy of the documents it has read; save() writes the modified paths of  *)
(* that copy back to the store.                                            *)
(*                                                                         *)
(* Amounts and balances are whole currency units (JSON numbers in the      *)
(* request body).  Database reads are taken to succeed; every database     *)
(* write either succeeds or rejects, and a rejection is caught by the      *)
(* handler's catch block, which answers 500.                               *)
(***************************************************************************)
EXTENDS Integers, Sequences, FiniteSets, TLC

(***************************************************************************)
(* Bounds of the model                                                     *)
(***************************************************************************)
\* number of transactions a run of requests served one after the other creates
MaxTxn == 1
\* the opening balance of an account that has been funded
MaxOpening == 2

Users == {"u1", "u2"}
\* an id that is a well-formed ObjectId but names no user document
NoUser == "nobody"
\* the request handlers that can be in flight together
Req == {1, 2}
\* the amounts a request names: one the validator rejects, the smallest
\* unit, and a whole opening balance
Amounts == {0, 1, MaxOpening}
\* accountBalance: default 0, or the funds the account was opened with
OpeningBalances == {0, MaxOpening}
\* body('type').isIn([...])
TxnTypes == {"transfer", "deposit", "withdrawal", "payment"}
\* transactionSchema status enum
TxnStatuses == {"pending", "completed", "failed", "cancelled"}

VARIABLES
    users,   \* User collection: id -> [accountBalance, isActive]
    txns,    \* Transaction collection: sequence of documents, _id = index
    req,     \* per ledger request slot: position in the handler, local copies
    loans,   \* Loan collection: sequence of documents, _id = index
    lreq,    \* per loan request slot: position in the handler, local copies
    cards,   \* Card collection: sequence of documents, _id = index
    creq,    \* per card request slot: position in the handler, local copies
    calc     \* one evaluation of a stateless computation: inputs and outputs

vars == <<users, txns, req, loans, lreq, cards, creq, calc>>
ledgerVars == <<users, txns, req>>
loanVars == <<loans, lreq>>
cardVars == <<cards, creq>>

Null == [none |-> TRUE]

\* no computation has been asked for
IdleCalc == [fn |-> "none"]

IdleCardReq ==
    [pc |-> "idle", route |-> "none", uid |-> NoUser, cardType |-> "none",
     cardNetwork |-> "none", cardCategory |-> "none", creditLimit |-> 0,
     pin |-> "none", cid |-> 0, card |-> Null, result |-> "none", at |-> "none",
     pre |-> <<>>, action |-> "none", isContactless |-> "undefined",
     isInternational |-> "undefined", modified |-> {}]

IdleLoanReq ==
    [pc |-> "idle", route |-> "none", uid |-> NoUser, loanType |-> "none",
     amount |-> 0, term |-> 0, purpose |-> "none", documents |-> "none",
     lid |-> 0, loan |-> Null, modified |-> {},
     result |-> "none", at |-> "none", pre |-> <<>>]

IdleReq ==
    [pc |-> "idle", route |-> "none", uid |-> NoUser, type |-> "none",
     receiverId |-> NoUser, amount |-> 0, tid |-> 0,
     user |-> Null, receiver |-> Null, status |-> "none",
     result |-> "none", at |-> "none", pre |-> Null]

InFlight(r) == req[r].pc \notin {"idle", "done"}

\* the response of a handler: the request is over and its copies of the
\* documents are dropped; `at` keeps the place the handler ended
Answer(q, res, at) ==
    [q EXCEPT !.pc = "done", !.result = res, !.at = at,
              !.user = Null, !.receiver = Null]

Respond(r, res) == Answer(req[r], res, req[r].pc)

\* what the store held when the request arrived (history, for the contracts)
Snapshot == [users |-> users, txns |-> txns]

(***************************************************************************)
(* Store and documents                                                     *)
(***************************************************************************)
\* userSchema: accountBalance (default 0), isActive (default true)
UserDoc(balance) == [accountBalance |-> balance, isActive |-> TRUE]

\* new Transaction({sender, receiver, amount, type, description, status: 'pending'})
\* and the default of reference
NewTransaction(q, reference) ==
    [sender |-> q.uid, receiver |-> q.receiverId, amount |-> q.amount,
     type |-> q.type, status |-> "pending", completedAt |-> FALSE,
     reference |-> reference]

\* 'TXN' + Date.now() + Math.random()...: references count only up to
\* equality, so the value the default produces is one a stored transaction
\* already has, or a new one, named by the next unused number
GeneratedReferences ==
    {txns[t].reference : t \in 1..Len(txns)} \cup {Len(txns) + 1}

\* the unique index on reference admits the document
ReferenceFree(doc) == \A t \in 1..Len(txns) : txns[t].reference # doc.reference

\* the validators Transaction.save() runs on a new document
TransactionValid(doc) ==
    /\ doc.sender \in Users
    /\ doc.receiver \in Users
    /\ doc.amount >= 1
    /\ doc.type \in TxnTypes
    /\ doc.status \in TxnStatuses

\* authentication without the isActive check: any account of a valid token
\* goes on to the handler
authenticateTokenAnyAccount(q, next) ==
    [q EXCEPT !.pc = next, !.user = users[q.uid], !.pre = Snapshot]

\* authenticateToken: the user document of the token is read; a request of an
\* inactive user is answered 401, any other goes on to the handler at `next`
authenticateToken(q, next) ==
    IF users[q.uid].isActive
    THEN [q EXCEPT !.pc = next, !.user = users[q.uid], !.pre = Snapshot]
    ELSE Answer([q EXCEPT !.pre = Snapshot], "Unauthorized", "auth")

\* the balance check with <= for <: a transfer of the whole balance is refused
InsufficientBalanceStrict(balance, amount) == balance <= amount

\* the balance check one unit too generous
InsufficientBalanceLax(balance, amount) == balance < amount - 1

\* req.user.accountBalance < amount
InsufficientBalance(balance, amount) == balance < amount

\* !receiver || !receiver.isActive, negated
ReceiverFound(id) == id \in Users /\ users[id].isActive

\* body('amount').isFloat({ min: 0.01 }) over whole units
AmountValid(amount) == amount >= 1

\* the type dispatch without the balance check of the withdrawal
AfterSaveUnchecked(q) ==
    IF q.type = "transfer" THEN [q EXCEPT !.pc = "debit"]
    ELSE IF q.type = "deposit" THEN [q EXCEPT !.pc = "deposit"]
    ELSE IF q.type = "withdrawal" THEN [q EXCEPT !.pc = "withdraw"]
    ELSE Answer(q, "Created", "saveTxn")

\* the branch of the type dispatch that follows the first transaction.save()
AfterSave(q) ==
    IF q.type = "transfer" THEN [q EXCEPT !.pc = "debit"]
    ELSE IF q.type = "deposit" THEN [q EXCEPT !.pc = "deposit"]
    ELSE IF q.type = "withdrawal"
         THEN IF InsufficientBalance(q.user.accountBalance, q.amount)
              THEN Answer(q, "InsufficientBalance", "withdraw")
              ELSE [q EXCEPT !.pc = "withdraw"]
    ELSE Answer(q, "Created", "saveTxn")

\* a handler takes the first free slot
SlotFree(r) ==
    /\ req[r].pc = "idle"
    /\ \A q \in Req : q < r => req[q].pc # "idle"

(***************************************************************************)
(* POST /api/transaction/create                                            *)
(***************************************************************************)
CreateRequest(r) ==
    /\ SlotFree(r)
    /\ \E u \in Users, rcv \in Users \cup {NoUser}, amt \in Amounts, ty \in TxnTypes :
         req' = [req EXCEPT ![r] =
                   authenticateToken([IdleReq EXCEPT !.route = "create", !.uid = u,
                                          !.receiverId = rcv, !.amount = amt,
                                          !.type = ty], "create")]
    /\ UNCHANGED <<users, txns>>

\* validationResult, the transfer balance check, User.findById(receiverId)
CreateFindReceiver(r) ==
    LET q == req[r] IN
    /\ q.pc = "create"
    /\ req' = [req EXCEPT ![r] =
         IF ~AmountValid(q.amount) THEN Respond(r, "ValidationFailed")
         ELSE IF q.type = "transfer" /\ InsufficientBalance(q.user.accountBalance, q.amount)
              THEN Respond(r, "InsufficientBalance")
         ELSE IF ~ReceiverFound(q.receiverId) THEN Respond(r, "NotFound")
         ELSE [q EXCEPT !.pc = "saveTxn", !.receiver = users[q.receiverId]]]
    /\ UNCHANGED <<users, txns>>

\* new Transaction(...); await transaction.save(); then the type dispatch
CreateSaveTransaction(r) ==
    LET q == req[r] IN
    /\ q.pc = "saveTxn"
    /\ \E ok \in BOOLEAN, reference \in GeneratedReferences :
         LET transaction == NewTransaction(q, reference) IN
         IF ok /\ TransactionValid(transaction) /\ ReferenceFree(transaction)
         THEN /\ txns' = Append(txns, transaction)
              /\ req' = [req EXCEPT ![r] =
                          AfterSave([q EXCEPT !.tid = Len(txns) + 1,
                                              !.status = "pending"])]
         ELSE /\ req' = [req EXCEPT ![r] =
                          IF TransactionValid(transaction) /\ ~ReferenceFree(transaction)
                          THEN Answer(q, "InternalError", "duplicateKey")
                          ELSE Respond(r, "InternalError")]
              /\ UNCHANGED txns
    /\ UNCHANGED users

\* the balance a handler's copy of a user holds after `-=` or `+=`
Debited(doc, amount) == [doc EXCEPT !.accountBalance = doc.accountBalance - amount]
Credited(doc, amount) == [doc EXCEPT !.accountBalance = doc.accountBalance + amount]

\* user.save() writes the modified path, accountBalance, of the handler's copy
SaveBalance(id, doc) == [users EXCEPT ![id].accountBalance = doc.accountBalance]

\* transfer: req.user.accountBalance -= amount; await req.user.save()
TransferDebitSender(r) ==
    LET q == req[r] IN
    /\ q.pc = "debit"
    /\ \E ok \in BOOLEAN :
         IF ok
         THEN /\ users' = SaveBalance(q.uid, Debited(q.user, q.amount))
              /\ req' = [req EXCEPT ![r] =
                          [q EXCEPT !.pc = "credit", !.user = Debited(q.user, q.amount)]]
         ELSE /\ req' = [req EXCEPT ![r] = Respond(r, "InternalError")]
              /\ UNCHANGED users
    /\ UNCHANGED txns

\* the credit of the receiver with a compensating write: a failed credit
\* gives the sender the amount back
TransferCreditReceiverCompensated(r) ==
    LET q == req[r] IN
    /\ q.pc = "credit"
    /\ \E ok \in BOOLEAN :
         IF ok
         THEN /\ users' = SaveBalance(q.receiverId, Credited(q.receiver, q.amount))
              /\ req' = [req EXCEPT ![r] =
                          [q EXCEPT !.pc = "complete",
                                    !.receiver = Credited(q.receiver, q.amount)]]
         ELSE /\ req' = [req EXCEPT ![r] = Respond(r, "InternalError")]
              /\ users' = SaveBalance(q.uid, Credited(q.user, q.amount))
    /\ UNCHANGED txns

\* transfer: receiver.accountBalance += amount; await receiver.save()
TransferCreditReceiver(r) ==
    LET q == req[r] IN
    /\ q.pc = "credit"
    /\ \E ok \in BOOLEAN :
         IF ok
         THEN /\ users' = SaveBalance(q.receiverId, Credited(q.receiver, q.amount))
              /\ req' = [req EXCEPT ![r] =
                          [q EXCEPT !.pc = "complete",
                                    !.receiver = Credited(q.receiver, q.amount)]]
         ELSE /\ req' = [req EXCEPT ![r] = Respond(r, "InternalError")]
              /\ UNCHANGED users
    /\ UNCHANGED txns

\* the deposit credited to the account named as receiver
DepositCreditReceiver(r) ==
    LET q == req[r] IN
    /\ q.pc = "deposit"
    /\ \E ok \in BOOLEAN :
         IF ok
         THEN /\ users' = SaveBalance(q.receiverId, Credited(q.receiver, q.amount))
              /\ req' = [req EXCEPT ![r] =
                          [q EXCEPT !.pc = "complete",
                                    !.receiver = Credited(q.receiver, q.amount)]]
         ELSE /\ req' = [req EXCEPT ![r] = Respond(r, "InternalError")]
              /\ UNCHANGED users
    /\ UNCHANGED txns

\* deposit: req.user.accountBalance += amount; await req.user.save()
DepositCreditSender(r) ==
    LET q == req[r] IN
    /\ q.pc = "deposit"
    /\ \E ok \in BOOLEAN :
         IF ok
         THEN /\ users' = SaveBalance(q.uid, Credited(q.user, q.amount))
              /\ req' = [req EXCEPT ![r] =
                          [q EXCEPT !.pc = "complete", !.user = Credited(q.user, q.amount)]]
         ELSE /\ req' = [req EXCEPT ![r] = Respond(r, "InternalError")]
              /\ UNCHANGED users
    /\ UNCHANGED txns

\* withdrawal: req.user.accountBalance -= amount; await req.user.save()
WithdrawalDebitSender(r) ==
    LET q == req[r] IN
    /\ q.pc = "withdraw"
    /\ \E ok \in BOOLEAN :
         IF ok
         THEN /\ users' = SaveBalance(q.uid, Debited(q.user, q.amount))
              /\ req' = [req EXCEPT ![r] =
                          [q EXCEPT !.pc = "complete", !.user = Debited(q.user, q.amount)]]
         ELSE /\ req' = [req EXCEPT ![r] = Respond(r, "InternalError")]
              /\ UNCHANGED users
    /\ UNCHANGED txns

\* transaction.status = 'completed'; transaction.completedAt = new Date();
\* await transaction.save(); res.status(201)
CompleteTransaction(r) ==
    LET q == req[r] IN
    /\ q.pc = "complete"
    /\ \E ok \in BOOLEAN :
         IF ok
         THEN /\ txns' = [txns EXCEPT ![q.tid].status = "completed",
                                      ![q.tid].completedAt = TRUE]
              /\ req' = [req EXCEPT ![r] =
                          Answer([q EXCEPT !.status = "completed"], "Created",
                                 "complete")]
         ELSE /\ req' = [req EXCEPT ![r] = Respond(r, "InternalError")]
              /\ UNCHANGED txns
    /\ UNCHANGED users

(***************************************************************************)
(* PATCH /api/transaction/:id/cancel                                       *)
(***************************************************************************)
CancelRequest(r) ==
    /\ SlotFree(r)
    /\ \E u \in Users, t \in 0..Len(txns) :
         req' = [req EXCEPT ![r] =
                   authenticateToken([IdleReq EXCEPT !.route = "cancel", !.uid = u,
                                          !.tid = t], "cancel")]
    /\ UNCHANGED <<users, txns>>

\* the status check that only refuses what is already cancelled
CancellableUnlessCancelled(status) == status # "cancelled"

\* transaction.status !== 'pending', negated
Cancellable(status) == status = "pending"

\* Transaction.findById, the sender check and the status check
CancelFind(r) ==
    LET q == req[r] IN
    /\ q.pc = "cancel"
    /\ req' = [req EXCEPT ![r] =
         IF q.tid \notin 1..Len(txns) THEN Respond(r, "NotFound")
         ELSE IF txns[q.tid].sender # q.uid THEN Respond(r, "AccessDenied")
         ELSE IF ~Cancellable(txns[q.tid].status) THEN Respond(r, "NotPending")
         ELSE [q EXCEPT !.pc = "cancelSave", !.status = "cancelled"]]
    /\ UNCHANGED <<users, txns>>

\* transaction.status = 'cancelled'; await transaction.save()
CancelSave(r) ==
    LET q == req[r] IN
    /\ q.pc = "cancelSave"
    /\ \E ok \in BOOLEAN :
         IF ok
         THEN /\ txns' = [txns EXCEPT ![q.tid].status = q.status]
              /\ req' = [req EXCEPT ![r] = Respond(r, "Cancelled")]
         ELSE /\ req' = [req EXCEPT ![r] = Respond(r, "InternalError")]
              /\ UNCHANGED txns
    /\ UNCHANGED users

(***************************************************************************)
(* PATCH /api/user/deactivate                                              *)
(***************************************************************************)
DeactivateRequest(r) ==
    /\ SlotFree(r)
    /\ \E u \in Users :
         req' = [req EXCEPT ![r] =
                   authenticateToken([IdleReq EXCEPT !.route = "deactivate", !.uid = u],
                                     "deactivate")]
    /\ UNCHANGED <<users, txns>>

\* req.user.isActive = false; await req.user.save()
DeactivateSave(r) ==
    LET q == req[r] IN
    /\ q.pc = "deactivate"
    /\ \E ok \in BOOLEAN :
         IF ok
         THEN /\ users' = [users EXCEPT ![q.uid].isActive = FALSE]
              /\ req' = [req EXCEPT ![r] = Respond(r, "Deactivated")]
         ELSE /\ req' = [req EXCEPT ![r] = Respond(r, "InternalError")]
              /\ UNCHANGED users
    /\ UNCHANGED txns

(***************************************************************************)
(* Specifications                                                          *)
(***************************************************************************)
Init ==
    /\ users \in [Users -> {UserDoc(b) : b \in OpeningBalances}]
    /\ txns = <<>>
    /\ req = [r \in Req |-> IdleReq]
    /\ loans = <<>>
    /\ lreq = [r \in Req |-> IdleLoanReq]
    /\ cards = <<>>
    /\ creq = [r \in Req |-> IdleCardReq]
    /\ calc = IdleCalc

\* the next database call of request r
Step(r) ==
    \/ CreateRequest(r)
    \/ CreateFindReceiver(r)
    \/ CreateSaveTransaction(r)
    \/ TransferDebitSender(r)
    \/ TransferCreditReceiver(r)
    \/ DepositCreditSender(r)
    \/ WithdrawalDebitSender(r)
    \/ CompleteTransaction(r)
    \/ CancelRequest(r)
    \/ CancelFind(r)
    \/ CancelSave(r)
    \/ DeactivateRequest(r)
    \/ DeactivateSave(r)

\* requests interleave at their database calls
Next == (\E r \in Req : Step(r)) /\ UNCHANGED <<loanVars, cardVars, calc>>

Spec == Init /\ [][Next]_vars

\* the connection of an answered request serves the next request
Recycle(r) ==
    /\ req[r].pc = "done"
    /\ req' = [req EXCEPT ![r] = IdleReq]
    /\ UNCHANGED <<users, txns>>

\* no request is in flight and every answer has been delivered
Quiet == \A q \in Req : req[q].pc = "idle"

\* one request at a time: a request arrives only when the one before it has
\* been answered
NextSeq ==
    ( \E r \in Req :
        \/ Quiet /\ Len(txns) < MaxTxn /\ CreateRequest(r)
        \/ CreateFindReceiver(r)
        \/ CreateSaveTransaction(r)
        \/ TransferDebitSender(r)
        \/ TransferCreditReceiver(r)
        \/ DepositCreditSender(r)
        \/ WithdrawalDebitSender(r)
        \/ CompleteTransaction(r)
        \/ Quiet /\ CancelRequest(r)
        \/ CancelFind(r)
        \/ CancelSave(r)
        \/ Quiet /\ DeactivateRequest(r)
        \/ DeactivateSave(r)
        \/ Recycle(r)
    ) /\ UNCHANGED <<loanVars, cardVars, calc>>

SpecSeq == Init /\ [][NextSeq]_vars

(***************************************************************************)
(* Loans: models/Loan.js and routes/loan.js                                *)
(*                                                                         *)
(* Interest rates are kept in tenths of a percent (10.5 is 105).  A numeric *)
(* path the constructor was not given and that has no default is Undefined.*)
(* Document.save() runs the schema validators first and the pre('save')    *)
(* hooks of the schema after them; a failed validator rejects the save     *)
(* before any hook has run and before anything is written.                 *)
(***************************************************************************)
\* loanSchema loanType enum
LoanTypes == {"personal", "home", "business", "education", "vehicle"}
\* loanSchema status enum
LoanStatuses == {"pending", "approved", "rejected", "active", "closed"}
\* status: { $in: ['pending', 'approved', 'active'] }
OpenLoanStatuses == {"pending", "approved", "active"}
\* amounts an application names: below the minimum, the minimum, and the
\* threshold of the personal loan table
LoanAmounts == {999, 1000, 50000}
\* terms an application names, in months
LoanTerms == {12}
\* purposes a request names ("none": the field is absent)
Purposes == {"none", "p1"}
\* document lists a request names ("none": the field is absent); a loan
\* starts with the empty list "[]"
DocumentLists == {"none", "[d1]"}

\* the switch with every threshold exclusive
InterestRateExclusive(loanType, amount) ==
    CASE loanType = "personal"  -> IF amount > 50000 THEN 105 ELSE 125
      [] loanType = "home"      -> IF amount > 1000000 THEN 85 ELSE 95
      [] loanType = "business"  -> IF amount > 200000 THEN 115 ELSE 135
      [] loanType = "education" -> 95
      [] loanType = "vehicle"   -> IF amount > 500000 THEN 90 ELSE 105
      [] OTHER                  -> 0

\* the switch on loanType, in tenths of a percent
InterestRate(loanType, amount) ==
    CASE loanType = "personal"  -> IF amount >= 50000 THEN 105 ELSE 125
      [] loanType = "home"      -> IF amount >= 1000000 THEN 85 ELSE 95
      [] loanType = "business"  -> IF amount >= 200000 THEN 115 ELSE 135
      [] loanType = "education" -> 95
      [] loanType = "vehicle"   -> IF amount >= 500000 THEN 90 ELSE 105
      [] OTHER                  -> 0

\* a numeric path the document does not have
Undefined == -1

\* fixed-point unit of the rate arithmetic: four decimal places
RateScale == 100 * 100

\* Math.pow(1 + monthlyRate, n) in fixed point
RECURSIVE Pow(_, _)
Pow(base, n) == IF n = 0 THEN RateScale ELSE (Pow(base, n - 1) * base) \div RateScale

\* the payment of simple interest: principal and the interest of the term,
\* in equal parts
AmortizeSimpleInterest(amount, rate, term) ==
    LET monthlyRate == (rate * RateScale) \div 12000
        payment == (amount + ((amount * monthlyRate) \div RateScale) * term) \div term
    IN  [monthlyPayment |-> payment, totalAmount |-> payment * term]

\* the amortization of the pre('save') hook: monthlyPayment and totalAmount
Amortize(amount, rate, term) ==
    LET monthlyRate == (rate * RateScale) \div 12000
        growth == Pow(RateScale + monthlyRate, term)
        payment == IF monthlyRate > 0
                   THEN (((amount * monthlyRate) \div RateScale) * growth)
                            \div (growth - RateScale)
                   ELSE amount \div term
    IN  [monthlyPayment |-> payment, totalAmount |-> payment * term]

\* loanSchema.pre('save'): recompute when amount, interestRate or term is modified
LoanPreSave(doc, modified) ==
    IF modified \cap {"amount", "interestRate", "term"} # {}
    THEN [doc EXCEPT
            !.monthlyPayment = Amortize(doc.amount, doc.interestRate, doc.term).monthlyPayment,
            !.totalAmount = Amortize(doc.amount, doc.interestRate, doc.term).totalAmount,
            !.remainingBalance = doc.amount]
    ELSE doc

\* the validators of loanSchema without the enum of status
LoanValidAnyStatus(doc) ==
    /\ doc.user \in Users
    /\ doc.loanType \in LoanTypes
    /\ doc.amount # Undefined /\ doc.amount >= 1000
    /\ doc.interestRate # Undefined /\ doc.interestRate >= 1 /\ doc.interestRate <= 250
    /\ doc.term # Undefined /\ doc.term >= 1 /\ doc.term <= 360
    /\ doc.monthlyPayment # Undefined
    /\ doc.totalAmount # Undefined

\* the validators of loanSchema (required, enum, min, max)
LoanValid(doc) ==
    /\ doc.user \in Users
    /\ doc.loanType \in LoanTypes
    /\ doc.amount # Undefined /\ doc.amount >= 1000
    /\ doc.interestRate # Undefined /\ doc.interestRate >= 1 /\ doc.interestRate <= 250
    /\ doc.term # Undefined /\ doc.term >= 1 /\ doc.term <= 360
    /\ doc.monthlyPayment # Undefined
    /\ doc.totalAmount # Undefined
    /\ doc.status \in LoanStatuses

\* new Loan({user, loanType, amount, interestRate, term, purpose})
NewLoan(q) ==
    [user |-> q.uid, loanType |-> q.loanType, amount |-> q.amount,
     interestRate |-> InterestRate(q.loanType, q.amount), term |-> q.term,
     purpose |-> q.purpose, documents |-> "[]",
     monthlyPayment |-> Undefined, totalAmount |-> Undefined,
     status |-> "pending", remainingBalance |-> 0]

\* a loan document as the store holds it after a valid save
StoredLoan(u, loanType, amount, term, status) ==
    LET doc == [user |-> u, loanType |-> loanType, amount |-> amount,
                interestRate |-> InterestRate(loanType, amount), term |-> term,
                purpose |-> "none", documents |-> "[]",
                monthlyPayment |-> Undefined, totalAmount |-> Undefined,
                status |-> status, remainingBalance |-> 0]
    IN  LoanPreSave(doc, {"amount", "interestRate", "term"})

\* the validators of POST /apply: amount >= 1000, term in 1..360, loanType
LoanRequestValid(q) ==
    /\ q.loanType \in LoanTypes
    /\ q.amount >= 1000
    /\ q.term >= 1 /\ q.term <= 360

\* the look-up that only finds pending applications
ExistingPendingLoan(u) ==
    {i \in 1..Len(loans) : loans[i].user = u /\ loans[i].status = "pending"}

\* Loan.findOne({user, status: {$in: ['pending', 'approved', 'active']}})
ExistingLoan(u) ==
    {i \in 1..Len(loans) : loans[i].user = u /\ loans[i].status \in OpenLoanStatuses}

\* the answer of a loan handler; its copy of the document is dropped
LoanAnswer(q, res) ==
    [q EXCEPT !.pc = "done", !.result = res, !.at = q.pc, !.loan = Null,
              !.modified = {}]

\* authenticateToken of routes/loan.js
LoanAuthenticate(q, next) ==
    IF users[q.uid].isActive
    THEN [q EXCEPT !.pc = next, !.pre = loans]
    ELSE [q EXCEPT !.pc = "done", !.result = "Unauthorized", !.at = "auth",
                   !.pre = loans]

LoanSlotFree(r) ==
    /\ lreq[r].pc = "idle"
    /\ \A q \in Req : q < r => lreq[q].pc # "idle"

\* POST /api/loan/apply: arrival
LoanApplyRequest(r) ==
    /\ LoanSlotFree(r)
    /\ \E u \in Users, ty \in LoanTypes, amt \in LoanAmounts, tm \in LoanTerms :
         lreq' = [lreq EXCEPT ![r] =
                    LoanAuthenticate([IdleLoanReq EXCEPT !.route = "apply", !.uid = u,
                                          !.loanType = ty, !.amount = amt, !.term = tm],
                                     "apply")]
    /\ UNCHANGED loans

\* validationResult, the rate switch, Loan.findOne, new Loan(...)
LoanApplyFindExisting(r) ==
    LET q == lreq[r] IN
    /\ q.pc = "apply"
    /\ lreq' = [lreq EXCEPT ![r] =
         IF ~LoanRequestValid(q) THEN LoanAnswer(q, "ValidationFailed")
         ELSE IF ExistingLoan(q.uid) # {} THEN LoanAnswer(q, "DuplicateActiveLoan")
         ELSE [q EXCEPT !.pc = "applySave", !.loan = NewLoan(q)]]
    /\ UNCHANGED loans

\* if (purpose) loan.purpose = purpose; if (documents) loan.documents = documents
LoanUpdated(doc, q) ==
    [doc EXCEPT !.purpose = IF q.purpose # "none" THEN q.purpose ELSE @,
                !.documents = IF q.documents # "none" THEN q.documents ELSE @]

\* the paths in which the handler's copy differs from the document it read
Modified(read, doc) == {f \in DOMAIN doc : doc[f] # read[f]}

\* what save() leaves in the store: the pre('save') hook has run on the
\* handler's copy, and the paths the handler or the hook has modified are
\* written over the stored document
LoanSaved(stored, doc, modified) ==
    LET hooked == LoanPreSave(doc, modified)
        written == modified \cup Modified(doc, hooked)
    IN  [f \in DOMAIN stored |-> IF f \in written THEN hooked[f] ELSE stored[f]]

\* a save the schema validators rejected: the catch block answers 500
LoanRejected(q) == [LoanAnswer(q, "InternalError") EXCEPT !.at = "validation"]

\* await loan.save() of a new document: the validators, then the pre('save')
\* hook, then the insert; res.status(201)
LoanApplySave(r) ==
    LET q == lreq[r] IN
    /\ q.pc = "applySave"
    /\ IF ~LoanValid(q.loan)
       THEN /\ lreq' = [lreq EXCEPT ![r] = LoanRejected(q)]
            /\ UNCHANGED loans
       ELSE \E ok \in BOOLEAN :
              IF ok
              THEN /\ loans' = Append(loans, LoanPreSave(q.loan, {"amount", "interestRate", "term"}))
                   /\ lreq' = [lreq EXCEPT ![r] =
                                 LoanAnswer([q EXCEPT !.lid = Len(loans) + 1], "Created")]
              ELSE /\ lreq' = [lreq EXCEPT ![r] = LoanAnswer(q, "InternalError")]
                   /\ UNCHANGED loans

\* PATCH /api/loan/:id: arrival
LoanUpdateRequest(r) ==
    /\ LoanSlotFree(r)
    /\ \E u \in Users, l \in 0..Len(loans), p \in Purposes, d \in DocumentLists :
         lreq' = [lreq EXCEPT ![r] =
                    LoanAuthenticate([IdleLoanReq EXCEPT !.route = "update", !.uid = u,
                                          !.lid = l, !.purpose = p, !.documents = d],
                                     "update")]
    /\ UNCHANGED loans

\* Loan.findById, the owner check, the status check, the field updates
LoanUpdateFind(r) ==
    LET q == lreq[r] IN
    /\ q.pc = "update"
    /\ lreq' = [lreq EXCEPT ![r] =
         IF q.lid \notin 1..Len(loans) THEN LoanAnswer(q, "NotFound")
         ELSE IF loans[q.lid].user # q.uid THEN LoanAnswer(q, "AccessDenied")
         ELSE IF loans[q.lid].status # "pending" THEN LoanAnswer(q, "NotPending")
         ELSE [q EXCEPT !.pc = "updateSave",
                        !.loan = LoanUpdated(loans[q.lid], q),
                        !.modified = Modified(loans[q.lid], LoanUpdated(loans[q.lid], q))]]
    /\ UNCHANGED loans

\* await loan.save() of the updated document: the modified paths are written
LoanUpdateSave(r) ==
    LET q == lreq[r] IN
    /\ q.pc = "updateSave"
    /\ IF ~LoanValid(q.loan)
       THEN /\ lreq' = [lreq EXCEPT ![r] = LoanRejected(q)]
            /\ UNCHANGED loans
       ELSE \E ok \in BOOLEAN :
              IF ok
              THEN /\ loans' = [loans EXCEPT ![q.lid] = LoanSaved(@, q.loan, q.modified)]
                   /\ lreq' = [lreq EXCEPT ![r] = LoanAnswer(q, "Updated")]
              ELSE /\ lreq' = [lreq EXCEPT ![r] = LoanAnswer(q, "InternalError")]
                   /\ UNCHANGED loans

\* PATCH /api/loan/:id/cancel: arrival
LoanCancelRequest(r) ==
    /\ LoanSlotFree(r)
    /\ \E u \in Users, l \in 0..Len(loans) :
         lreq' = [lreq EXCEPT ![r] =
                    LoanAuthenticate([IdleLoanReq EXCEPT !.route = "cancel", !.uid = u,
                                          !.lid = l], "cancel")]
    /\ UNCHANGED loans

\* Loan.findById, the owner check, the status check, loan.status = 'cancelled'
LoanCancelFind(r) ==
    LET q == lreq[r] IN
    /\ q.pc = "cancel"
    /\ lreq' = [lreq EXCEPT ![r] =
         IF q.lid \notin 1..Len(loans) THEN LoanAnswer(q, "NotFound")
         ELSE IF loans[q.lid].user # q.uid THEN LoanAnswer(q, "AccessDenied")
         ELSE IF loans[q.lid].status # "pending" THEN LoanAnswer(q, "NotPending")
         ELSE [q EXCEPT !.pc = "cancelSave",
                        !.loan = [loans[q.lid] EXCEPT !.status = "cancelled"],
                        !.modified = {"status"}]]
    /\ UNCHANGED loans

\* await loan.save() of the cancelled document: the modified path is written
LoanCancelSave(r) ==
    LET q == lreq[r] IN
    /\ q.pc = "cancelSave"
    /\ IF ~LoanValid(q.loan)
       THEN /\ lreq' = [lreq EXCEPT ![r] = LoanRejected(q)]
            /\ UNCHANGED loans
       ELSE \E ok \in BOOLEAN :
              IF ok
              THEN /\ loans' = [loans EXCEPT ![q.lid] = LoanSaved(@, q.loan, q.modified)]
                   /\ lreq' = [lreq EXCEPT ![r] = LoanAnswer(q, "Cancelled")]
              ELSE /\ lreq' = [lreq EXCEPT ![r] = LoanAnswer(q, "InternalError")]
                   /\ UNCHANGED loans

\* The loans the collection holds when the server starts.  No route of the
\* repository approves, rejects, disburses or closes a loan (approvedBy,
\* approvedAt, disbursedAt are written by none), so the collection is also
\* written by the bank's back office: each user starts with no loan or with
\* one valid loan document in any status.
LoanBook ==
    LET own(u) == {<<>>} \cup {<<StoredLoan(u, "personal", 50000, 12, st)>> : st \in LoanStatuses}
    IN  {a \o b : a \in own("u1"), b \in own("u2")}

InitLoan ==
    /\ users = [u \in Users |-> UserDoc(0)]
    /\ txns = <<>>
    /\ req = [r \in Req |-> IdleReq]
    /\ loans \in LoanBook
    /\ lreq = [r \in Req |-> IdleLoanReq]
    /\ cards = <<>>
    /\ creq = [r \in Req |-> IdleCardReq]
    /\ calc = IdleCalc

LoanStep(r) ==
    \/ LoanApplyRequest(r)
    \/ LoanApplyFindExisting(r)
    \/ LoanApplySave(r)
    \/ LoanUpdateRequest(r)
    \/ LoanUpdateFind(r)
    \/ LoanUpdateSave(r)
    \/ LoanCancelRequest(r)
    \/ LoanCancelFind(r)
    \/ LoanCancelSave(r)

NextLoan == (\E r \in Req : LoanStep(r)) /\ UNCHANGED <<ledgerVars, cardVars, calc>>

SpecLoan == InitLoan /\ [][NextLoan]_vars

(***************************************************************************)
(* The interest rate switch of POST /apply on its own: the rate the        *)
(* handler assigns to an application of a given loanType and amount.       *)
(***************************************************************************)
\* amounts at, just below and just above every threshold of the switch
RateAmounts ==
    {1000, 49999, 50000, 50001, 199999, 200000, 200001,
     499999, 500000, 500001, 999999, 1000000, 1000001}

InitRate ==
    /\ users = [u \in Users |-> UserDoc(0)]
    /\ txns = <<>>
    /\ req = [r \in Req |-> IdleReq]
    /\ loans = <<>>
    /\ lreq = [r \in Req |-> IdleLoanReq]
    /\ cards = <<>>
    /\ creq = [r \in Req |-> IdleCardReq]
    /\ calc \in {[fn |-> "rate", loanType |-> ty, amount |-> amt, interestRate |-> Undefined] :
                    ty \in LoanTypes, amt \in RateAmounts}

\* let interestRate = 0; switch (loanType) { ... }
AssignRate ==
    /\ calc.fn = "rate"
    /\ calc.interestRate = Undefined
    /\ calc' = [calc EXCEPT !.interestRate = InterestRate(calc.loanType, calc.amount)]
    /\ UNCHANGED <<ledgerVars, loanVars, cardVars>>

NextRate == AssignRate

SpecRate == InitRate /\ [][NextRate]_vars

(***************************************************************************)
(* The loan calculator, POST /calculator of routes/loan.js                 *)
(*                                                                         *)
(* The handler reads no document and writes none: it is one step.  Its     *)
(* arithmetic is carried out exactly, on numbers whole + num / den; the    *)
(* amounts are whole currency units, the rate is in tenths of a percent,   *)
(* and the three outputs are numbers of hundredths, as Math.round(x * 100) *)
(* leaves them.  For the inputs of the model no value lies within the      *)
(* floating-point error of a rounding boundary.                            *)
(***************************************************************************)
\* amounts a calculation names: below the minimum, and from the minimum on
CalcAmounts == 999..1020
\* terms a calculation names, in months (0: rejected by the validator)
CalcTerms == 0..3
\* annual rates a calculation names, in tenths of a percent (0: rejected)
CalcRates == {0, 120, 240}

RECURSIVE Gcd(_, _)
Gcd(a, b) == IF b = 0 THEN a ELSE Gcd(b, a % b)

\* the number whole + num / den, with 0 <= num < den
Exact(whole, num, den) ==
    [whole |-> whole + (num \div den), num |-> num % den, den |-> den]

\* x * k for a whole k
Times(x, k) == Exact(x.whole * k, x.num * k, x.den)

\* x - k for a whole k
Minus(x, k) == [x EXCEPT !.whole = x.whole - k]

\* Math.round(x * 100): the hundredths of x, a half rounded up
Round100(x) == 100 * x.whole + ((200 * x.num + x.den) \div (2 * x.den))

\* Math.pow on whole numbers
RECURSIVE IntPow(_, _)
IntPow(base, n) == IF n = 0 THEN 1 ELSE base * IntPow(base, n - 1)

\* the rate of a year taken for the rate of a month: interestRate / 100
MonthlyRateOfYear(interestRate) ==
    LET g == Gcd(interestRate, 1000)
    IN  [num |-> interestRate \div g, den |-> 1000 \div g]

\* monthlyRate = interestRate / 100 / 12, as a fraction in lowest terms
MonthlyRate(interestRate) ==
    LET g == Gcd(interestRate, 12000)
    IN  [num |-> interestRate \div g, den |-> 12000 \div g]

\* (amount * monthlyRate * Math.pow(1 + monthlyRate, n)) /
\* (Math.pow(1 + monthlyRate, n) - 1), or amount / n when monthlyRate is 0
MonthlyPayment(amount, monthlyRate, numberOfPayments) ==
    LET a == monthlyRate.num
        b == monthlyRate.den
        up == IntPow(a + b, numberOfPayments)
        down == IntPow(b, numberOfPayments)
    IN  IF a > 0
        THEN Times(Exact(0, a * up, b * (up - down)), amount)
        ELSE Exact(0, amount, numberOfPayments)

\* the validators of POST /calculator
CalculatorRequestValid(amount, term, interestRate) ==
    /\ amount >= 1000
    /\ term >= 1 /\ term <= 360
    /\ interestRate >= 1 /\ interestRate <= 250

\* res.json({calculation: {...}}) or the 400 of the validators
Calculation(amount, term, interestRate) ==
    LET monthlyRate == MonthlyRate(interestRate)
        monthlyPayment == MonthlyPayment(amount, monthlyRate, term)
        totalAmount == Times(monthlyPayment, term)
        totalInterest == Minus(totalAmount, amount)
    IN  IF CalculatorRequestValid(amount, term, interestRate)
        THEN [fn |-> "calculator", result |-> "Calculated",
              loanAmount |-> amount, term |-> term, interestRate |-> interestRate,
              monthlyPayment |-> Round100(monthlyPayment),
              totalAmount |-> Round100(totalAmount),
              totalInterest |-> Round100(totalInterest)]
        ELSE [fn |-> "calculator", result |-> "ValidationFailed",
              loanAmount |-> amount, term |-> term, interestRate |-> interestRate,
              monthlyPayment |-> Undefined, totalAmount |-> Undefined,
              totalInterest |-> Undefined]

\* POST /api/loan/calculator
Calculator ==
    /\ calc.fn = "none"
    /\ \E amount \in CalcAmounts, term \in CalcTerms, interestRate \in CalcRates :
         calc' = Calculation(amount, term, interestRate)
    /\ UNCHANGED <<ledgerVars, loanVars, cardVars>>

InitCalculator ==
    /\ users = [u \in Users |-> UserDoc(0)]
    /\ txns = <<>>
    /\ req = [r \in Req |-> IdleReq]
    /\ loans = <<>>
    /\ lreq = [r \in Req |-> IdleLoanReq]
    /\ cards = <<>>
    /\ creq = [r \in Req |-> IdleCardReq]
    /\ calc = IdleCalc

NextCalculator == Calculator

SpecCalculator == InitCalculator /\ [][NextCalculator]_vars

(***************************************************************************)
(* Cards: models/Card.js and routes/card.js                                *)
(*                                                                         *)
(* A card number is the sequence of its decimal digits.  A string path the *)
(* constructor was not given and that has no default is Missing.           *)
(***************************************************************************)
\* cardSchema cardType enum
CardTypes == {"credit", "debit"}
\* cardSchema cardNetwork enum
CardNetworks == {"Visa", "Mastercard", "RuPay", "American Express"}
\* cardSchema cardCategory enum
CardCategories == {"classic", "gold", "platinum", "signature", "infinite"}
\* cardSchema status enum
CardStatuses == {"pending", "approved", "active", "blocked", "expired"}
\* status: { $in: ['pending', 'approved', 'active'] }
OpenCardStatuses == {"pending", "approved", "active"}
\* cardSchema rewardsProgram enum
RewardsPrograms == {"cashback", "points", "miles", "none"}
\* credit limits an application names: below the minimum, and the minimum
CreditLimits == {9999, 10000}
\* the network an application names
RequestedNetworks == {"Visa"}
\* the pin an application names
Pins == {"1234"}

\* a string path the document does not have
Missing == ""

\* the number of digits the loop appends to the prefix
RandomDigitCount == 15

\* the values Math.floor(Math.random() * 10) takes in the model
RandomDigits == {0, 7}

\* the outcomes of the loop of random digits
RandomTails == [1..RandomDigitCount -> RandomDigits]

\* the fee switch that charges debit cards nothing
AnnualFeeCreditOnly(cardType, cardCategory) ==
    IF cardType = "credit"
    THEN CASE cardCategory = "classic"   -> 500
           [] cardCategory = "gold"      -> 1000
           [] cardCategory = "platinum"  -> 2500
           [] cardCategory = "signature" -> 5000
           [] cardCategory = "infinite"  -> 10000
           [] OTHER                      -> 0
    ELSE 0

\* the switch on cardCategory
AnnualFee(cardType, cardCategory) ==
    CASE cardCategory = "classic"   -> IF cardType = "credit" THEN 500 ELSE 0
      [] cardCategory = "gold"      -> IF cardType = "credit" THEN 1000 ELSE 250
      [] cardCategory = "platinum"  -> IF cardType = "credit" THEN 2500 ELSE 500
      [] cardCategory = "signature" -> IF cardType = "credit" THEN 5000 ELSE 1000
      [] cardCategory = "infinite"  -> IF cardType = "credit" THEN 10000 ELSE 2000
      [] OTHER                      -> 0

\* let rewardsProgram = 'none'; the switch inside if (cardType === 'credit')
RewardsProgram(cardType, cardCategory) ==
    IF cardType = "credit"
    THEN CASE cardCategory = "gold"      -> "cashback"
           [] cardCategory = "platinum"  -> "points"
           [] cardCategory = "signature" -> "miles"
           [] cardCategory = "infinite"  -> "miles"
           [] OTHER                      -> "none"
    ELSE "none"

\* the first digit of the number, by network
NetworkPrefix(cardNetwork) ==
    CASE cardNetwork = "Visa"       -> 4
      [] cardNetwork = "Mastercard" -> 5
      [] cardNetwork = "RuPay"      -> 6
      [] OTHER                      -> 3

\* if (isEven) { digit *= 2; if (digit > 9) digit -= 9 }
Doubled(digit, isEven) ==
    IF isEven THEN (IF 2 * digit > 9 THEN 2 * digit - 9 ELSE 2 * digit) ELSE digit

\* the loop for (i = length - 1; i >= 0; i--): the sum of digits 1..i of the
\* number, the i-th entering with the current isEven, which flips every step
RECURSIVE DigitSum(_, _, _)
DigitSum(digits, i, isEven) ==
    IF i = 0 THEN 0
    ELSE Doubled(digits[i], isEven) + DigitSum(digits, i - 1, ~isEven)

\* the body of if (!this.cardNumber): prefix, the random digits, then the
\* check digit of the loop that starts with isEven = false at the last digit
GenerateCardNumber(cardNetwork, random) ==
    LET cardNumber == <<NetworkPrefix(cardNetwork)>> \o random
        sum == DigitSum(cardNumber, Len(cardNumber), FALSE)
        checkDigit == (10 - (sum % 10)) % 10
    IN  Append(cardNumber, checkDigit)

\* cardSchema.pre('save'): a document without a card number is given one
CardPreSave(doc, random) ==
    IF doc.cardNumber = <<>>
    THEN [doc EXCEPT !.cardNumber = GenerateCardNumber(doc.cardNetwork, random)]
    ELSE doc

\* match: /^[0-9]{16}$/
CardNumberMatches(number) ==
    /\ Len(number) = 16
    /\ \A i \in 1..Len(number) : number[i] \in 0..9

\* the validators of cardSchema (required, enum, match, min)
CardValid(doc) ==
    /\ doc.user \in Users
    /\ doc.cardType \in CardTypes
    /\ doc.cardNumber # <<>> /\ CardNumberMatches(doc.cardNumber)
    /\ doc.cardHolder # Missing
    /\ doc.expiryDate # Missing
    /\ doc.cvv # Missing
    /\ doc.status \in CardStatuses
    /\ doc.creditLimit >= 0
    /\ doc.cardNetwork \in CardNetworks
    /\ doc.cardCategory \in CardCategories
    /\ doc.rewardsProgram \in RewardsPrograms
    /\ doc.pin # Missing

\* new Card({user, cardType, cardNetwork, cardCategory, creditLimit,
\* availableCredit, pin, annualFee, rewardsProgram, ...}); status defaults
NewCard(q) ==
    [user |-> q.uid, cardType |-> q.cardType, cardNumber |-> <<>>,
     cardHolder |-> Missing, expiryDate |-> Missing, cvv |-> Missing,
     status |-> "pending",
     creditLimit |-> IF q.cardType = "credit" THEN q.creditLimit ELSE 0,
     availableCredit |-> IF q.cardType = "credit" THEN q.creditLimit ELSE 0,
     cardNetwork |-> q.cardNetwork, cardCategory |-> q.cardCategory,
     annualFee |-> AnnualFee(q.cardType, q.cardCategory),
     rewardsProgram |-> RewardsProgram(q.cardType, q.cardCategory),
     isContactless |-> TRUE, isInternational |-> FALSE,
     pin |-> q.pin]

\* a 16-digit number of the issuer, one per card holder
IssuedNumber(u) ==
    [i \in 1..16 |-> IF i = 1 THEN 4 ELSE IF i = 16 /\ u = "u2" THEN 1 ELSE 0]

\* a card document as the store holds it once the card has been issued
StoredCard(u, cardType, status) ==
    [user |-> u, cardType |-> cardType, cardNumber |-> IssuedNumber(u),
     cardHolder |-> u, expiryDate |-> "12/30", cvv |-> "123",
     status |-> status,
     creditLimit |-> IF cardType = "credit" THEN 10000 ELSE 0,
     availableCredit |-> IF cardType = "credit" THEN 10000 ELSE 0,
     cardNetwork |-> "Visa", cardCategory |-> "classic",
     annualFee |-> AnnualFee(cardType, "classic"),
     rewardsProgram |-> RewardsProgram(cardType, "classic"),
     isContactless |-> TRUE, isInternational |-> FALSE,
     pin |-> "1234"]

\* the validators of POST /apply
CardRequestValid(q) ==
    /\ q.cardType \in CardTypes
    /\ q.cardNetwork \in CardNetworks
    /\ q.cardCategory \in CardCategories
    /\ q.cardType = "credit" => (q.creditLimit >= 10000 /\ q.creditLimit <= 1000000)
    /\ q.pin \in Pins

\* the look-up that only finds pending applications
ExistingPendingCard(u, cardType) ==
    {i \in 1..Len(cards) : /\ cards[i].user = u
                           /\ cards[i].cardType = cardType
                           /\ cards[i].status = "pending"}

\* Card.findOne({user, cardType, status: {$in: ['pending', 'approved', 'active']}})
ExistingCard(u, cardType) ==
    {i \in 1..Len(cards) : /\ cards[i].user = u
                           /\ cards[i].cardType = cardType
                           /\ cards[i].status \in OpenCardStatuses}

\* the answer of a card handler; its copy of the document is dropped
CardAnswer(q, res, at) ==
    [q EXCEPT !.pc = "done", !.result = res, !.at = at, !.card = Null,
              !.modified = {}]

\* authenticateToken of routes/card.js
CardAuthenticate(q, next) ==
    IF users[q.uid].isActive
    THEN [q EXCEPT !.pc = next]
    ELSE [q EXCEPT !.pc = "done", !.result = "Unauthorized", !.at = "auth"]

CardSlotFree(r) ==
    /\ creq[r].pc = "idle"
    /\ \A q \in Req : q < r => creq[q].pc # "idle"

\* POST /api/card/apply: arrival
CardApplyRequest(r) ==
    /\ CardSlotFree(r)
    /\ \E u \in Users, ty \in CardTypes, nw \in RequestedNetworks,
          cat \in CardCategories, lim \in CreditLimits, pin \in Pins :
         creq' = [creq EXCEPT ![r] =
                    CardAuthenticate([IdleCardReq EXCEPT !.route = "apply", !.uid = u,
                                          !.cardType = ty, !.cardNetwork = nw,
                                          !.cardCategory = cat, !.creditLimit = lim,
                                          !.pin = pin],
                                     "apply")]
    /\ UNCHANGED cards

\* validationResult, Card.findOne, the fee and rewards switches, new Card(...);
\* pre is the collection the look-up read
CardApplyFindExisting(r) ==
    LET q == [creq[r] EXCEPT !.pre = cards] IN
    /\ q.pc = "apply"
    /\ creq' = [creq EXCEPT ![r] =
         IF ~CardRequestValid(q) THEN CardAnswer(q, "ValidationFailed", "validators")
         ELSE IF ExistingCard(q.uid, q.cardType) # {}
              THEN CardAnswer(q, "DuplicateActiveCard", "findOne")
         ELSE [q EXCEPT !.pc = "applySave", !.card = NewCard(q)]]
    /\ UNCHANGED cards

\* await card.save() of a new document: the validators, then the pre('save')
\* hooks, then the insert under the unique index on cardNumber; res.status(201)
CardApplySave(r) ==
    LET q == creq[r] IN
    /\ q.pc = "applySave"
    /\ IF ~CardValid(q.card)
       THEN /\ creq' = [creq EXCEPT ![r] = CardAnswer(q, "InternalError", "validation")]
            /\ UNCHANGED cards
       ELSE \E ok \in BOOLEAN, random \in RandomTails :
              LET doc == CardPreSave(q.card, random)
                  taken == \E i \in 1..Len(cards) : cards[i].cardNumber = doc.cardNumber
              IN  IF ok /\ ~taken
                  THEN /\ cards' = Append(cards, doc)
                       /\ creq' = [creq EXCEPT ![r] =
                                     CardAnswer([q EXCEPT !.cid = Len(cards) + 1],
                                                "Created", "save")]
                  ELSE /\ creq' = [creq EXCEPT ![r] =
                                     CardAnswer(q, "InternalError",
                                                IF taken THEN "duplicateKey" ELSE "save")]
                       /\ UNCHANGED cards

\* the values the body of PATCH /:id carries for a flag: absent, or a
\* boolean as JSON text
ContactlessInputs == {"undefined", "false"}
InternationalInputs == {"undefined", "true"}

\* the cast of the Boolean schema type
CastBoolean(v) == v = "true"

\* if (isContactless !== undefined) card.isContactless = isContactless; ...
CardUpdated(doc, q) ==
    [doc EXCEPT !.isContactless =
                    IF q.isContactless # "undefined" THEN CastBoolean(q.isContactless) ELSE @,
                !.isInternational =
                    IF q.isInternational # "undefined" THEN CastBoolean(q.isInternational) ELSE @]

\* what save() of a stored card leaves in the store: the paths the handler
\* has modified are written over the stored document (cardNumber is set, so
\* the number hook does nothing)
CardSaved(stored, doc, modified) ==
    LET hooked == CardPreSave(doc, <<>>)
    IN  [f \in DOMAIN stored |-> IF f \in modified THEN hooked[f] ELSE stored[f]]

\* the look-up without the owner check
CardLookupAnyOwner(q) ==
    IF q.cid \notin 1..Len(cards) THEN CardAnswer(q, "NotFound", "findById")
    ELSE [q EXCEPT !.card = cards[q.cid]]

\* Card.findById, the owner check: the handler's copy of the card, or the
\* answer that ends the request
CardLookup(q) ==
    IF q.cid \notin 1..Len(cards) THEN CardAnswer(q, "NotFound", "findById")
    ELSE IF cards[q.cid].user # q.uid THEN CardAnswer(q, "AccessDenied", "owner")
    ELSE [q EXCEPT !.card = cards[q.cid]]

\* await card.save() of a stored document, answered res on success: the
\* validators, then the hooks, then the update of the modified paths
CardSave(r, res) ==
    LET q == creq[r] IN
    IF ~CardValid(q.card)
    THEN /\ creq' = [creq EXCEPT ![r] = CardAnswer(q, "InternalError", "validation")]
         /\ UNCHANGED cards
    ELSE \E ok \in BOOLEAN :
           IF ok
           THEN /\ cards' = [cards EXCEPT ![q.cid] = CardSaved(@, q.card, q.modified)]
                /\ creq' = [creq EXCEPT ![r] = CardAnswer(q, res, "save")]
           ELSE /\ creq' = [creq EXCEPT ![r] = CardAnswer(q, "InternalError", "save")]
                /\ UNCHANGED cards

\* PATCH /api/card/:id: arrival
CardUpdateRequest(r) ==
    /\ CardSlotFree(r)
    /\ \E u \in Users, c \in 0..Len(cards), ic \in ContactlessInputs, ii \in InternationalInputs :
         creq' = [creq EXCEPT ![r] =
                    CardAuthenticate([IdleCardReq EXCEPT !.route = "update", !.uid = u,
                                          !.cid = c, !.isContactless = ic,
                                          !.isInternational = ii],
                                     "update")]
    /\ UNCHANGED cards

\* Card.findById, the owner check, the status check, the field updates
CardUpdateFind(r) ==
    LET q == [creq[r] EXCEPT !.pre = cards]
        found == CardLookup(q)
    IN
    /\ q.pc = "update"
    /\ creq' = [creq EXCEPT ![r] =
         IF found.pc = "done" THEN found
         ELSE IF found.card.status # "pending"
              THEN CardAnswer(q, "NotPending", "status")
         ELSE [q EXCEPT !.pc = "updateSave",
                        !.card = CardUpdated(found.card, q),
                        !.modified = Modified(found.card, CardUpdated(found.card, q))]]
    /\ UNCHANGED cards

CardUpdateSave(r) == creq[r].pc = "updateSave" /\ CardSave(r, "Updated")

\* PATCH /api/card/:id/cancel: arrival
CardCancelRequest(r) ==
    /\ CardSlotFree(r)
    /\ \E u \in Users, c \in 0..Len(cards) :
         creq' = [creq EXCEPT ![r] =
                    CardAuthenticate([IdleCardReq EXCEPT !.route = "cancel", !.uid = u,
                                          !.cid = c], "cancel")]
    /\ UNCHANGED cards

\* Card.findById, the owner check, the status check, card.status = 'cancelled'
CardCancelFind(r) ==
    LET q == [creq[r] EXCEPT !.pre = cards]
        found == CardLookup(q)
    IN
    /\ q.pc = "cancel"
    /\ creq' = [creq EXCEPT ![r] =
         IF found.pc = "done" THEN found
         ELSE IF found.card.status # "pending"
              THEN CardAnswer(q, "NotPending", "status")
         ELSE [q EXCEPT !.pc = "cancelSave",
                        !.card = [found.card EXCEPT !.status = "cancelled"],
                        !.modified = {"status"}]]
    /\ UNCHANGED cards

CardCancelSave(r) == creq[r].pc = "cancelSave" /\ CardSave(r, "Cancelled")

\* the values the body of PATCH /:id/toggle-status carries for action
ToggleActions == {"block", "unblock", "none"}

\* PATCH /api/card/:id/toggle-status: arrival
CardToggleRequest(r) ==
    /\ CardSlotFree(r)
    /\ \E u \in Users, c \in 0..Len(cards), a \in ToggleActions :
         creq' = [creq EXCEPT ![r] =
                    CardAuthenticate([IdleCardReq EXCEPT !.route = "toggle", !.uid = u,
                                          !.cid = c, !.action = a], "toggle")]
    /\ UNCHANGED cards

\* card.status = action === 'block' ? 'blocked' : 'active'
Toggled(doc, action) ==
    [doc EXCEPT !.status = IF action = "block" THEN "blocked" ELSE "active"]

\* if (card.status !== 'active'): only active cards can be blocked/unblocked
ToggleRefused(doc, action) == doc.status # "active"

\* validationResult, Card.findById, the owner check, the status check, the
\* new status
CardToggleFind(r) ==
    LET q == [creq[r] EXCEPT !.pre = cards]
        found == CardLookup(q)
    IN
    /\ q.pc = "toggle"
    /\ creq' = [creq EXCEPT ![r] =
         IF q.action \notin {"block", "unblock"}
         THEN CardAnswer(q, "ValidationFailed", "validators")
         ELSE IF found.pc = "done" THEN found
         ELSE IF ToggleRefused(found.card, q.action)
              THEN CardAnswer(q, "NotActive", "status")
         ELSE [q EXCEPT !.pc = "toggleSave",
                        !.card = Toggled(found.card, q.action),
                        !.modified = Modified(found.card, Toggled(found.card, q.action))]]
    /\ UNCHANGED cards

CardToggleSave(r) == creq[r].pc = "toggleSave" /\ CardSave(r, "Toggled")

\* The cards the collection holds when the server starts.  No route of the
\* repository approves, issues or expires a card (approvedBy, approvedAt,
\* issuedAt are written by none), so the collection is also written by the
\* bank's back office: each user starts with no card or with one issued
\* card of either type in any status.
CardBook ==
    LET own(u) == {<<>>} \cup {<<StoredCard(u, ty, st)>> : ty \in CardTypes, st \in CardStatuses}
    IN  {a \o b : a \in own("u1"), b \in own("u2")}

InitCard ==
    /\ users = [u \in Users |-> UserDoc(0)]
    /\ txns = <<>>
    /\ req = [r \in Req |-> IdleReq]
    /\ loans = <<>>
    /\ lreq = [r \in Req |-> IdleLoanReq]
    /\ cards \in CardBook
    /\ creq = [r \in Req |-> IdleCardReq]
    /\ calc = IdleCalc

CardStep(r) ==
    \/ CardApplyRequest(r)
    \/ CardApplyFindExisting(r)
    \/ CardApplySave(r)

NextCard == (\E r \in Req : CardStep(r)) /\ UNCHANGED <<ledgerVars, loanVars, calc>>

SpecCard == InitCard /\ [][NextCard]_vars

(***************************************************************************)
(* The card number hook on its own: cardSchema.pre('save') run on a        *)
(* document of a given network that has no card number, for every outcome  *)
(* of the random digits.                                                   *)
(***************************************************************************)
InitCardNumber ==
    /\ users = [u \in Users |-> UserDoc(0)]
    /\ txns = <<>>
    /\ req = [r \in Req |-> IdleReq]
    /\ loans = <<>>
    /\ lreq = [r \in Req |-> IdleLoanReq]
    /\ cards = <<>>
    /\ creq = [r \in Req |-> IdleCardReq]
    /\ calc \in {[fn |-> "cardNumber", cardNetwork |-> nw, random |-> rnd, cardNumber |-> <<>>] :
                    nw \in CardNetworks, rnd \in RandomTails}

\* the hook runs on the document
GenerateNumber ==
    /\ calc.fn = "cardNumber"
    /\ calc.cardNumber = <<>>
    /\ calc' = CardPreSave(calc, calc.random)
    /\ UNCHANGED <<ledgerVars, loanVars, cardVars>>

NextCardNumber == GenerateNumber

SpecCardNumber == InitCardNumber /\ [][NextCardNumber]_vars

(***************************************************************************)
(* The whole application, requests served one after the other: every route *)
(* of the ledger, of the user account, of the loans and of the cards, on   *)
(* collections that already hold one transaction, one loan and one card of *)
(* user u1.  Each request slot of the model serves one request.            *)
(* A request reads and writes one collection only, so the statuses of the  *)
(* three documents are varied together, not independently: every status of *)
(* every collection occurs in some initial state.                          *)
(***************************************************************************)
\* the statuses of the transaction, the loan and the card the server starts
\* with
BankStages ==
    { [txn |-> "pending",   loan |-> "pending",  card |-> "pending"],
      [txn |-> "completed", loan |-> "approved", card |-> "approved"],
      [txn |-> "failed",    loan |-> "rejected", card |-> "active"],
      [txn |-> "cancelled", loan |-> "active",   card |-> "blocked"],
      [txn |-> "completed", loan |-> "closed",   card |-> "expired"] }

\* a transaction document as the store holds it
StoredTransaction(status) ==
    [sender |-> "u1", receiver |-> "u2", amount |-> 1, type |-> "transfer",
     status |-> status, completedAt |-> (status = "completed"), reference |-> 0]

InitBank ==
    /\ users = [u \in Users |-> UserDoc(MaxOpening)]
    /\ req = [r \in Req |-> IdleReq]
    /\ lreq = [r \in Req |-> IdleLoanReq]
    /\ \E stage \in BankStages :
         /\ txns = <<StoredTransaction(stage.txn)>>
         /\ loans = <<StoredLoan("u1", "personal", 50000, 12, stage.loan)>>
         /\ cards = <<StoredCard("u1", "credit", stage.card)>>
    /\ creq = [r \in Req |-> IdleCardReq]
    /\ calc = IdleCalc

\* the requests that have arrived, over all routes
Arrived ==
    Cardinality({r \in Req : req[r].pc # "idle"})
    + Cardinality({r \in Req : lreq[r].pc # "idle"})
    + Cardinality({r \in Req : creq[r].pc # "idle"})

\* no request is in flight and a request slot is left
BankOpen ==
    /\ \A r \in Req : /\ req[r].pc \in {"idle", "done"}
                      /\ lreq[r].pc \in {"idle", "done"}
                      /\ creq[r].pc \in {"idle", "done"}
    /\ Arrived < Cardinality(Req)

NextBank ==
    \/ /\ \E r \in Req :
             \/ BankOpen /\ CreateRequest(r)
             \/ BankOpen /\ CancelRequest(r)
             \/ BankOpen /\ DeactivateRequest(r)
             \/ CreateFindReceiver(r)
             \/ CreateSaveTransaction(r)
             \/ TransferDebitSender(r)
             \/ TransferCreditReceiver(r)
             \/ DepositCreditSender(r)
             \/ WithdrawalDebitSender(r)
             \/ CompleteTransaction(r)
             \/ CancelFind(r)
             \/ CancelSave(r)
             \/ DeactivateSave(r)
       /\ UNCHANGED <<loanVars, cardVars, calc>>
    \/ /\ \E r \in Req :
             \/ BankOpen /\ LoanApplyRequest(r)
             \/ BankOpen /\ LoanUpdateRequest(r)
             \/ BankOpen /\ LoanCancelRequest(r)
             \/ LoanApplyFindExisting(r)
             \/ LoanApplySave(r)
             \/ LoanUpdateFind(r)
             \/ LoanUpdateSave(r)
             \/ LoanCancelFind(r)
             \/ LoanCancelSave(r)
       /\ UNCHANGED <<ledgerVars, cardVars, calc>>
    \/ /\ \E r \in Req :
             \/ BankOpen /\ CardApplyRequest(r)
             \/ BankOpen /\ CardUpdateRequest(r)
             \/ BankOpen /\ CardCancelRequest(r)
             \/ BankOpen /\ CardToggleRequest(r)
             \/ CardApplyFindExisting(r)
             \/ CardApplySave(r)
             \/ CardUpdateFind(r)
             \/ CardUpdateSave(r)
             \/ CardCancelFind(r)
             \/ CardCancelSave(r)
             \/ CardToggleFind(r)
             \/ CardToggleSave(r)
       /\ UNCHANGED <<ledgerVars, loanVars, calc>>

SpecBank == InitBank /\ [][NextBank]_vars

(***************************************************************************)
(* Properties of the ledger                                                *)
(***************************************************************************)
\* request r has been answered
Answered(r) == req[r].pc = "done"

\* r is an answered create request of type ty that passed authentication
AnsweredCreate(r, ty) ==
    /\ Answered(r)
    /\ req[r].route = "create"
    /\ req[r].type = ty
    /\ req[r].result # "Unauthorized"

\* the balance account id held when request r arrived
BalanceBefore(r, id) == req[r].pre.users[id].accountBalance

\* C1: a transfer of the sender's whole balance to another, active account
\* succeeds when no write fails: the sender is left with 0, the receiver has
\* exactly the amount more, the transaction is completed with completedAt set.
C1_TransferOfWholeBalance ==
    \A r \in Req :
        LET q == req[r] IN
        ( /\ AnsweredCreate(r, "transfer")
          /\ AmountValid(q.amount)
          /\ q.receiverId \in Users \ {q.uid}
          /\ q.pre.users[q.receiverId].isActive
          /\ BalanceBefore(r, q.uid) = q.amount
          /\ q.result # "InternalError" )
        => /\ q.result = "Created"
           /\ users[q.uid].accountBalance = 0
           /\ users[q.receiverId].accountBalance
                 = BalanceBefore(r, q.receiverId) + q.amount
           /\ txns[q.tid].status = "completed"
           /\ txns[q.tid].completedAt

C1_Witness ==
    \E r \in Req :
        /\ AnsweredCreate(r, "transfer")
        /\ req[r].result = "Created"
        /\ req[r].receiverId # req[r].uid
        /\ BalanceBefore(r, req[r].uid) = req[r].amount
        /\ BalanceBefore(r, req[r].receiverId) > 0
        /\ users[req[r].uid].accountBalance = 0

\* C2: every transfer or withdrawal that names more than the sender's balance
\* is answered InsufficientBalance and changes no balance.
C2_InsufficientBalanceRejected ==
    \A r \in Req :
        LET q == req[r] IN
        ( /\ (AnsweredCreate(r, "transfer") \/ AnsweredCreate(r, "withdrawal"))
          /\ AmountValid(q.amount)
          /\ q.amount > BalanceBefore(r, q.uid)
          /\ q.result # "InternalError" )
        => /\ q.result = "InsufficientBalance"
           /\ users = q.pre.users

\* C3: the balance check of a transfer reads the copy of the sender the
\* request loaded when it arrived, not the store: a transfer is answered
\* InsufficientBalance exactly when its amount exceeds that copy, whatever
\* other requests have written since.
C3_CheckAgainstOwnCopy ==
    \A r \in Req :
        LET q == req[r] IN
        ( /\ q.route = "create"
          /\ q.type = "transfer"
          /\ AmountValid(q.amount)
          /\ q.pc # "create"
          /\ q.result # "Unauthorized" )
        => (q.result = "InsufficientBalance" <=> q.amount > BalanceBefore(r, q.uid))

\* two transfers of one sender arrived before either wrote, both are completed,
\* and together they moved more than the sender had
C3_Witness ==
    \E r1, r2 \in Req :
        /\ r1 # r2
        /\ AnsweredCreate(r1, "transfer") /\ AnsweredCreate(r2, "transfer")
        /\ req[r1].uid = req[r2].uid
        /\ req[r1].result = "Created" /\ req[r2].result = "Created"
        /\ req[r1].pre = req[r2].pre
        /\ txns[req[r1].tid].status = "completed"
        /\ txns[req[r2].tid].status = "completed"
        /\ req[r1].amount + req[r2].amount > BalanceBefore(r1, req[r1].uid)

\* C4: when the write that credits the receiver fails after the debit of the
\* sender has been written, nothing is rolled back: the sender stays debited,
\* the receiver is not credited, the transaction stays pending.
C4_NoRollback ==
    \A r \in Req :
        LET q == req[r] IN
        ( /\ AnsweredCreate(r, "transfer")
          /\ q.result = "InternalError"
          /\ q.at = "credit" )
        => /\ users = [q.pre.users EXCEPT ![q.uid].accountBalance = @ - q.amount]
           /\ txns[q.tid].status = "pending"
           /\ ~txns[q.tid].completedAt

C4_Witness ==
    \E r \in Req :
        /\ AnsweredCreate(r, "transfer")
        /\ req[r].result = "InternalError"
        /\ req[r].at = "credit"
        /\ req[r].receiverId # req[r].uid
        /\ users[req[r].uid].accountBalance < BalanceBefore(r, req[r].uid)
        /\ users[req[r].receiverId].accountBalance = BalanceBefore(r, req[r].receiverId)

\* C5: a transaction whose status has left pending never changes status
\* again (so cancelled is only ever entered from pending).
C5_TerminalStatus ==
    [][\A t \in 1..Len(txns) :
          txns[t].status # "pending" => txns'[t].status = txns[t].status]_vars

\* C6: every create request answered with success leaves its transaction
\* completed.
C6_CreatedIsCompleted ==
    \A r \in Req :
        (Answered(r) /\ req[r].route = "create" /\ req[r].result = "Created")
        => txns[req[r].tid].status = "completed"

\* what a transfer of amount from uid to rcv answers and leaves in the user
\* collection, from the user collection `before`
TransferEffect(before, uid, rcv, amount) ==
    IF InsufficientBalance(before[uid].accountBalance, amount)
    THEN [result |-> "InsufficientBalance", users |-> before, status |-> "none"]
    ELSE IF ~(rcv \in Users /\ before[rcv].isActive)
    THEN [result |-> "NotFound", users |-> before, status |-> "none"]
    ELSE [result |-> "Created",
          users |-> [[before EXCEPT ![uid].accountBalance = @ - amount]
                        EXCEPT ![rcv].accountBalance = before[rcv].accountBalance + amount],
          status |-> "completed"]

\* C7: a payment has the effect of the transfer with the same sender,
\* receiver and amount: same balance check, same debit, same credit, same
\* final status.
C7_PaymentLikeTransfer ==
    \A r \in Req :
        LET q == req[r]
            e == TransferEffect(q.pre.users, q.uid, q.receiverId, q.amount)
        IN  ( /\ AnsweredCreate(r, "payment")
              /\ AmountValid(q.amount)
              /\ q.result # "InternalError" )
            => /\ q.result = e.result
               /\ users = e.users
               /\ (e.result = "Created" => txns[q.tid].status = e.status)

\* the same statement about transfers themselves holds
TransferEffectSound ==
    \A r \in Req :
        LET q == req[r]
            e == TransferEffect(q.pre.users, q.uid, q.receiverId, q.amount)
        IN  ( /\ AnsweredCreate(r, "transfer")
              /\ AmountValid(q.amount)
              /\ q.result # "InternalError" )
            => /\ q.result = e.result
               /\ users = e.users
               /\ (e.result = "Created" => txns[q.tid].status = e.status)

\* r is an answered cancel request that passed authentication and names a
\* transaction that existed when it arrived
AnsweredCancel(r) ==
    /\ Answered(r)
    /\ req[r].route = "cancel"
    /\ req[r].result # "Unauthorized"
    /\ req[r].tid \in 1..Len(req[r].pre.txns)

\* C8: a cancel request sets the status to cancelled only if the status was
\* pending when the request was made; on a completed, failed or cancelled
\* transaction it is rejected and changes neither the transaction nor a balance.
C8_CancelOnlyPending ==
    \A r \in Req :
        LET q == req[r] IN
        AnsweredCancel(r) =>
            /\ q.result = "Cancelled" =>
                  /\ q.pre.txns[q.tid].status = "pending"
                  /\ txns[q.tid].status = "cancelled"
            /\ q.pre.txns[q.tid].status # "pending" =>
                  /\ q.result \in {"NotPending", "AccessDenied"}
                  /\ txns = q.pre.txns
                  /\ users = q.pre.users
            /\ (q.pre.txns[q.tid].status # "pending" /\ q.pre.txns[q.tid].sender = q.uid)
                  => q.result = "NotPending"

\* a cancel of a transaction that is already cancelled has been rejected
C8_Witness ==
    \E r \in Req :
        /\ AnsweredCancel(r)
        /\ req[r].pre.txns[req[r].tid].status = "cancelled"
        /\ req[r].result = "NotPending"
        /\ txns[req[r].tid].status = "cancelled"

\* C9: a deposit answered with success has raised the balance of the
\* requesting user by the amount, has changed no other account (the one named
\* as receiver included) and has left the transaction completed.
C9_DepositCreditsRequester ==
    \A r \in Req :
        LET q == req[r] IN
        (AnsweredCreate(r, "deposit") /\ q.result = "Created")
        => /\ users = [q.pre.users EXCEPT ![q.uid].accountBalance = @ + q.amount]
           /\ txns[q.tid].status = "completed"

C9_Witness ==
    \E r \in Req :
        /\ AnsweredCreate(r, "deposit")
        /\ req[r].result = "Created"
        /\ req[r].receiverId # req[r].uid
        /\ users[req[r].uid].accountBalance = BalanceBefore(r, req[r].uid) + req[r].amount
        /\ users[req[r].receiverId].accountBalance = BalanceBefore(r, req[r].receiverId)

\* C20: no create request is answered with an error because the reference
\* generated for its transaction was that of a stored transaction: on a
\* collision a new reference is generated and the request goes on.
C20_CollisionNotSurfaced ==
    \A r \in Req :
        (Answered(r) /\ req[r].route = "create")
        => ~(req[r].result = "InternalError" /\ req[r].at = "duplicateKey")

\* C25: under any interleaving of create requests no stored account balance
\* is below 0.
C25_BalancesNotNegative ==
    \A u \in Users : users[u].accountBalance >= 0

\* two withdrawals of one account that arrived together have both succeeded
\* although together they name more than the account held
C25_Witness ==
    \E r1, r2 \in Req :
        /\ r1 # r2
        /\ AnsweredCreate(r1, "withdrawal") /\ AnsweredCreate(r2, "withdrawal")
        /\ req[r1].uid = req[r2].uid
        /\ req[r1].result = "Created" /\ req[r2].result = "Created"
        /\ req[r1].pre.users = req[r2].pre.users
        /\ req[r1].amount + req[r2].amount > BalanceBefore(r1, req[r1].uid)
        /\ users[req[r1].uid].accountBalance >= 0

\* the sum of the account balances of a user collection
RECURSIVE TotalBalance(_, _)
TotalBalance(us, ids) ==
    IF ids = {} THEN 0
    ELSE LET u == CHOOSE x \in ids : TRUE
         IN  us[u].accountBalance + TotalBalance(us, ids \ {u})

\* the sum of the amounts of the completed transactions of type ty
RECURSIVE CompletedAmount(_, _)
CompletedAmount(ty, n) ==
    IF n = 0 THEN 0
    ELSE (IF txns[n].type = ty /\ txns[n].status = "completed"
          THEN txns[n].amount ELSE 0) + CompletedAmount(ty, n - 1)

\* only create requests between distinct accounts have arrived, none is in
\* flight and no write has failed
CreatesSettled ==
    \A r \in Req :
        \/ req[r].pc = "idle"
        \/ /\ req[r].pc = "done"
           /\ req[r].route = "create"
           /\ req[r].receiverId # req[r].uid
           /\ req[r].result # "InternalError"

\* C26: money is conserved: when no create request is in flight and no write
\* has failed, the sum of the balances is the initial sum plus the completed
\* deposits minus the completed withdrawals, whatever the interleaving of
\* create requests between distinct accounts. (A request that arrived while
\* no transaction was stored saw the initial balances.)
C26_MoneyConserved ==
    CreatesSettled =>
        \A r \in Req :
            (req[r].pc = "done" /\ req[r].pre.txns = <<>>) =>
                TotalBalance(users, Users) =
                    TotalBalance(req[r].pre.users, Users)
                    + CompletedAmount("deposit", Len(txns))
                    - CompletedAmount("withdrawal", Len(txns))

\* C27: a transfer to the requester's own account, of an amount not above
\* the balance, leaves the balance as it was before the request.
C27_SelfTransferNeutral ==
    \A r \in Req :
        LET q == req[r] IN
        ( /\ AnsweredCreate(r, "transfer")
          /\ q.receiverId = q.uid
          /\ AmountValid(q.amount)
          /\ q.amount <= BalanceBefore(r, q.uid)
          /\ q.result # "InternalError" )
        => users[q.uid].accountBalance = BalanceBefore(r, q.uid)

\* the answers of a create request that report an error of the request
CreateErrors == {"ValidationFailed", "InsufficientBalance", "NotFound"}

\* C28: a create request answered with an error (validation failure,
\* insufficient balance of a transfer or a withdrawal, receiver missing or
\* inactive) leaves the store as it was: no transaction record is added and
\* no balance is changed.
C28_ErrorLeavesStore ==
    \A r \in Req :
        LET q == req[r] IN
        ( /\ Answered(r)
          /\ q.route = "create"
          /\ q.result \in CreateErrors )
        => /\ txns = q.pre.txns
           /\ users = q.pre.users

\* every request that arrived has been answered and no write has failed
AllSettled ==
    \A r \in Req :
        req[r].pc \in {"idle", "done"} /\ req[r].result # "InternalError"

\* C29: whatever the interleaving of create and cancel requests, once they
\* are answered a transaction has completedAt set exactly when its status is
\* completed, and a transaction that is cancelled or pending has changed no
\* balance: the balances are those its create request found, when no other
\* create request has been made.
C29_CompletedAtIffCompleted ==
    AllSettled =>
        /\ \A t \in 1..Len(txns) :
              txns[t].completedAt <=> txns[t].status = "completed"
        /\ \A r \in Req :
              ( /\ req[r].route = "create"
                /\ req[r].tid \in 1..Len(txns)
                /\ txns[req[r].tid].status \in {"cancelled", "pending"}
                /\ \A o \in Req \ {r} : req[o].route # "create" )
              => \A u \in Users :
                    users[u].accountBalance = BalanceBefore(r, u)

(***************************************************************************)
(* Properties of the loan routes                                           *)
(***************************************************************************)
\* the loans of user u in collection c that are pending, approved or active
OpenLoansOf(c, u) ==
    {i \in 1..Len(c) : c[i].user = u /\ c[i].status \in {"pending", "approved", "active"}}

\* r is an answered, well-formed application that passed authentication
AnsweredApplication(r) ==
    /\ lreq[r].pc = "done"
    /\ lreq[r].route = "apply"
    /\ lreq[r].result # "Unauthorized"
    /\ LoanRequestValid(lreq[r])

\* C10: under any interleaving of loan requests a user has at most one loan
\* that is pending, approved or active, and an application made while the
\* user has such a loan is answered DuplicateActiveLoan and stores no loan.
C10_OneOpenLoan ==
    /\ \A u \in Users : Cardinality(OpenLoansOf(loans, u)) <= 1
    /\ \A r \in Req :
          LET q == lreq[r] IN
          (AnsweredApplication(r) /\ OpenLoansOf(q.pre, q.uid) # {})
          => /\ q.result = "DuplicateActiveLoan"
             /\ q.lid = 0
             /\ \A i \in 1..Len(loans) : loans[i].user = q.uid => i \in 1..Len(q.pre)

\* two applications of one user that ran together, both made while the user
\* had an approved loan, have been refused
C10_Witness ==
    \E r1, r2 \in Req :
        /\ r1 # r2
        /\ AnsweredApplication(r1) /\ AnsweredApplication(r2)
        /\ lreq[r1].uid = lreq[r2].uid
        /\ \E i \in OpenLoansOf(lreq[r1].pre, lreq[r1].uid) :
              lreq[r1].pre[i].status = "approved"
        /\ lreq[r1].result = "DuplicateActiveLoan"
        /\ lreq[r2].result = "DuplicateActiveLoan"

\* C13: a well-formed loan application of a user who has no pending, approved
\* or active loan is accepted, unless the database write fails: it is
\* answered with success and a pending loan of that user is stored with the
\* interest rate of the table, a computed monthlyPayment and totalAmount, and
\* remainingBalance equal to the amount.
C13_ValidLoanApplicationAccepted ==
    \A r \in Req :
        LET q == lreq[r] IN
        ( /\ AnsweredApplication(r)
          /\ OpenLoansOf(q.pre, q.uid) = {}
          /\ ~(q.result = "InternalError" /\ q.at = "applySave") )
        => /\ q.result = "Created"
           /\ q.lid \in 1..Len(loans)
           /\ loans[q.lid].user = q.uid
           /\ loans[q.lid].status = "pending"
           /\ loans[q.lid].interestRate = InterestRate(q.loanType, q.amount)
           /\ loans[q.lid].monthlyPayment # Undefined
           /\ loans[q.lid].totalAmount # Undefined
           /\ loans[q.lid].remainingBalance = q.amount

\* payment is the annuity payment of amount at rate (tenths of a percent a
\* year) over term months, in whole units: with monthlyRate = rate / 100 / 12
\* and growth = (1 + monthlyRate) ^ term,
\*   payment * (growth - 1) <= amount * monthlyRate * growth
\*                           < (payment + 1) * (growth - 1)
IsAnnuityPayment(amount, rate, term, payment) ==
    LET monthlyRate == (rate * RateScale) \div 12000
        growth == Pow(RateScale + monthlyRate, term)
        due == ((amount * monthlyRate) \div RateScale) * growth
    IN  /\ payment * (growth - RateScale) <= due
        /\ due < (payment + 1) * (growth - RateScale)

\* r is an update request that has been answered with success
AnsweredUpdate(r) ==
    /\ lreq[r].pc = "done"
    /\ lreq[r].route = "update"
    /\ lreq[r].result = "Updated"

RateAssigned == calc.fn = "rate" /\ calc.interestRate # Undefined

\* C14: the rate assigned for a loanType and an amount is the rate of the
\* table, in tenths of a percent, the lower rate applying from the threshold
\* on: personal 10.5 from 50000 and 12.5 below, home 8.5 from 1000000 and 9.5
\* below, business 11.5 from 200000 and 13.5 below, education 9.5, vehicle
\* 9.0 from 500000 and 10.5 below.
C14_RateTable ==
    RateAssigned =>
        /\ (calc.loanType = "personal" /\ calc.amount >= 50000) => calc.interestRate = 105
        /\ (calc.loanType = "personal" /\ calc.amount < 50000) => calc.interestRate = 125
        /\ (calc.loanType = "home" /\ calc.amount >= 1000000) => calc.interestRate = 85
        /\ (calc.loanType = "home" /\ calc.amount < 1000000) => calc.interestRate = 95
        /\ (calc.loanType = "business" /\ calc.amount >= 200000) => calc.interestRate = 115
        /\ (calc.loanType = "business" /\ calc.amount < 200000) => calc.interestRate = 135
        /\ calc.loanType = "education" => calc.interestRate = 95
        /\ (calc.loanType = "vehicle" /\ calc.amount >= 500000) => calc.interestRate = 90
        /\ (calc.loanType = "vehicle" /\ calc.amount < 500000) => calc.interestRate = 105

\* a personal loan of exactly 50000 has been given 10.5
C14_Witness ==
    /\ RateAssigned
    /\ calc.loanType = "personal"
    /\ calc.amount = 50000
    /\ calc.interestRate = 105

\* the calculator has answered with a calculation
Calculated == calc.fn = "calculator" /\ calc.result = "Calculated"

Abs(x) == IF x < 0 THEN -x ELSE x

\* what is owed, in hundredths, after a number of months in each of which the
\* balance earns interestRate / 100 / 12 (to the nearest hundredth) and the
\* payment is made
RECURSIVE Outstanding(_, _, _, _)
Outstanding(balance, interestRate, payment, months) ==
    IF months = 0 THEN balance
    ELSE Outstanding(balance + ((2 * balance * interestRate + 12000) \div 24000) - payment,
                     interestRate, payment, months - 1)

\* C18: the outputs of a calculation, in hundredths, agree up to their
\* rounding: term monthly payments make the total amount to within half a
\* hundredth per payment and half a hundredth for the total, the total
\* interest is the total amount less the principal, and the monthly payment
\* is the annuity payment, the one that pays the principal off in term
\* months at interestRate / 100 / 12 a month.
C18_CalculationConsistent ==
    Calculated =>
        /\ 2 * Abs(calc.monthlyPayment * calc.term - calc.totalAmount) <= calc.term + 1
        /\ calc.totalAmount - 100 * calc.loanAmount = calc.totalInterest
        /\ Abs(Outstanding(100 * calc.loanAmount, calc.interestRate,
                           calc.monthlyPayment, calc.term)) <= calc.term + 1

\* 1000 at 12 percent over 3 months: 340.02 a month, 1020.07 in all, where
\* three rounded payments make 1020.06
C18_Witness ==
    /\ Calculated
    /\ calc.loanAmount = 1000 /\ calc.interestRate = 120 /\ calc.term = 3
    /\ calc.monthlyPayment = 34002
    /\ calc.totalAmount = 102007
    /\ calc.totalInterest = 2007

(***************************************************************************)
(* Properties of the card routes                                           *)
(***************************************************************************)
\* the cards of type ty of user u in collection c that are pending, approved
\* or active
OpenCardsOf(c, u, ty) ==
    {i \in 1..Len(c) : /\ c[i].user = u
                       /\ c[i].cardType = ty
                       /\ c[i].status \in {"pending", "approved", "active"}}

\* r is an answered, well-formed card application that passed authentication
AnsweredCardApplication(r) ==
    /\ creq[r].pc = "done"
    /\ creq[r].route = "apply"
    /\ creq[r].result # "Unauthorized"
    /\ CardRequestValid(creq[r])

\* C11: under any interleaving of card applications a user has at most one
\* card of each cardType that is pending, approved or active, and an
\* application for a cardType of which the user has such a card is answered
\* DuplicateActiveCard and stores no card.
C11_OneOpenCardPerType ==
    /\ \A u \in Users, ty \in CardTypes : Cardinality(OpenCardsOf(cards, u, ty)) <= 1
    /\ \A r \in Req :
          LET q == creq[r] IN
          (AnsweredCardApplication(r) /\ OpenCardsOf(q.pre, q.uid, q.cardType) # {})
          => /\ q.result = "DuplicateActiveCard"
             /\ q.cid = 0
             /\ \A i \in 1..Len(cards) :
                   (cards[i].user = q.uid /\ cards[i].cardType = q.cardType)
                   => i \in 1..Len(q.pre)

\* two applications of one user for a credit card that ran together, both
\* made while the user had an approved credit card, have been refused
C11_Witness ==
    \E r1, r2 \in Req :
        /\ r1 # r2
        /\ AnsweredCardApplication(r1) /\ AnsweredCardApplication(r2)
        /\ creq[r1].uid = creq[r2].uid
        /\ creq[r1].cardType = "credit" /\ creq[r2].cardType = "credit"
        /\ \E i \in OpenCardsOf(creq[r1].pre, creq[r1].uid, "credit") :
              creq[r1].pre[i].status = "approved"
        /\ creq[r1].result = "DuplicateActiveCard"
        /\ creq[r2].result = "DuplicateActiveCard"

\* C12: a well-formed card application of a user who has no pending, approved
\* or active card of that cardType is accepted, unless the database write
\* fails: it is answered with success and a pending card of that user is stored.
C12_ValidApplicationAccepted ==
    \A r \in Req :
        LET q == creq[r] IN
        ( /\ AnsweredCardApplication(r)
          /\ OpenCardsOf(q.pre, q.uid, q.cardType) = {}
          /\ ~(q.result = "InternalError" /\ q.at = "save") )
        => /\ q.result = "Created"
           /\ q.cid \in 1..Len(cards)
           /\ cards[q.cid].user = q.uid
           /\ cards[q.cid].cardType = q.cardType
           /\ cards[q.cid].status = "pending"

\* the fee table: annual fee by cardType and cardCategory
FeeTable ==
    [credit |-> [classic |-> 500, gold |-> 1000, platinum |-> 2500,
                 signature |-> 5000, infinite |-> 10000],
     debit  |-> [classic |-> 0, gold |-> 250, platinum |-> 500,
                 signature |-> 1000, infinite |-> 2000]]

\* the rewards table of credit cards, by cardCategory
CreditRewardsTable ==
    [classic |-> "none", gold |-> "cashback", platinum |-> "points",
     signature |-> "miles", infinite |-> "miles"]

\* C15: the card document a well-formed application builds carries the annual
\* fee of the fee table for its cardType and cardCategory and the rewards
\* program of the rewards table; a debit card has rewardsProgram none.
C15_FeeSchedule ==
    \A r \in Req :
        LET q == creq[r] IN
        (q.route = "apply" /\ q.pc = "applySave")
        => /\ q.card.annualFee = FeeTable[q.cardType][q.cardCategory]
           /\ q.cardType = "credit"
                 => q.card.rewardsProgram = CreditRewardsTable[q.cardCategory]
           /\ q.cardType = "debit" => q.card.rewardsProgram = "none"

\* a credit signature card and a debit gold card have been priced
C15_Witness ==
    \E r1, r2 \in Req :
        /\ creq[r1].pc = "applySave" /\ creq[r2].pc = "applySave"
        /\ creq[r1].cardType = "credit" /\ creq[r1].cardCategory = "signature"
        /\ creq[r1].card.annualFee = 5000 /\ creq[r1].card.rewardsProgram = "miles"
        /\ creq[r2].cardType = "debit" /\ creq[r2].cardCategory = "gold"
        /\ creq[r2].card.annualFee = 250 /\ creq[r2].card.rewardsProgram = "none"

\* the hook has given the document a card number
NumberGenerated == calc.fn = "cardNumber" /\ calc.cardNumber # <<>>

\* C16: a generated card number has exactly 16 decimal digits and starts with
\* the digit of its network: Visa 4, Mastercard 5, RuPay 6, American Express 3.
C16_SixteenDigits ==
    NumberGenerated =>
        /\ Len(calc.cardNumber) = 16
        /\ \A i \in 1..Len(calc.cardNumber) : calc.cardNumber[i] \in 0..9
        /\ calc.cardNetwork = "Visa" => calc.cardNumber[1] = 4
        /\ calc.cardNetwork = "Mastercard" => calc.cardNumber[1] = 5
        /\ calc.cardNetwork = "RuPay" => calc.cardNumber[1] = 6
        /\ calc.cardNetwork = "American Express" => calc.cardNumber[1] = 3

\* the Luhn sum of digits 1..i of a payload of n digits: every second digit
\* is doubled, starting with the last one, and 9 is taken off a result above 9
RECURSIVE LuhnSum(_, _, _)
LuhnSum(payload, n, i) ==
    IF i = 0 THEN 0
    ELSE LET d == payload[i]
             v == IF (n - i) % 2 = 0 THEN (IF 2 * d > 9 THEN 2 * d - 9 ELSE 2 * d) ELSE d
         IN  v + LuhnSum(payload, n, i - 1)

\* the Luhn check digit of a payload
LuhnCheckDigit(payload) ==
    (10 - (LuhnSum(payload, Len(payload), Len(payload)) % 10)) % 10

\* C17: the last digit of a generated card number is the Luhn check digit of
\* the digits before it, whatever the random digits are.
C17_LuhnValid ==
    NumberGenerated =>
        LET n == Len(calc.cardNumber) IN
        calc.cardNumber[n] = LuhnCheckDigit(SubSeq(calc.cardNumber, 1, n - 1))


(***************************************************************************)
(* Properties of the whole application                                     *)
(***************************************************************************)
\* r is an answered card request on route rt by the owner of the card it
\* names, no write of which failed, and no card request has arrived since
OwnerCardRequest(r, rt) ==
    LET q == creq[r] IN
    /\ q.pc = "done"
    /\ q.route = rt
    /\ q.cid \in 1..Len(q.pre)
    /\ q.pre[q.cid].user = q.uid
    /\ ~(q.result = "InternalError" /\ q.at = "save")
    /\ \A o \in Req : o > r => creq[o].pc = "idle"

\* C22: toggle-status both blocks and unblocks: action block on the owner's
\* active card leaves it blocked, action unblock on the owner's blocked card
\* leaves it active.
C22_ToggleBlocksAndUnblocks ==
    \A r \in Req :
        LET q == creq[r] IN
        OwnerCardRequest(r, "toggle") =>
            /\ (q.action = "block" /\ q.pre[q.cid].status = "active")
                  => (q.result = "Toggled" /\ cards[q.cid].status = "blocked")
            /\ (q.action = "unblock" /\ q.pre[q.cid].status = "blocked")
                  => (q.result = "Toggled" /\ cards[q.cid].status = "active")

\* the half of C22 the code keeps: block on an active card
ToggleBlocks ==
    \A r \in Req :
        LET q == creq[r] IN
        (OwnerCardRequest(r, "toggle") /\ q.action = "block"
            /\ q.pre[q.cid].status = "active")
        => (q.result = "Toggled" /\ cards[q.cid].status = "blocked")


\* C21: after any sequence of apply, update, cancel and toggle-status
\* requests the stored status of every loan is one of pending, approved,
\* rejected, active, closed and the stored status of every card is one of
\* pending, approved, active, blocked, expired.
C21_StoredStatusInEnum ==
    /\ \A i \in 1..Len(loans) : loans[i].status \in LoanStatuses
    /\ \A i \in 1..Len(cards) : cards[i].status \in CardStatuses

\* the owner's cancel of a pending loan and the owner's cancel of a pending
\* card have both been answered, and the statuses stored are the schema's
C21_Witness ==
    \E r1, r2 \in Req :
        /\ lreq[r1].pc = "done" /\ lreq[r1].route = "cancel"
        /\ lreq[r1].lid \in 1..Len(lreq[r1].pre)
        /\ lreq[r1].pre[lreq[r1].lid].status = "pending"
        /\ lreq[r1].pre[lreq[r1].lid].user = lreq[r1].uid
        /\ OwnerCardRequest(r2, "cancel")
        /\ creq[r2].pre[creq[r2].cid].status = "pending"
        /\ loans[lreq[r1].lid].status \in LoanStatuses
        /\ cards[creq[r2].cid].status \in CardStatuses

\* C23: once a user's deactivate request has succeeded the account stays
\* inactive; every request that arrives later with that user's token is
\* answered Unauthorized on arrival, changes no balance, transaction, loan
\* or card, and takes no further step; and a create request that names the
\* user as receiver, with a valid amount and (for a transfer) a sufficient
\* balance, is answered NotFound.
C23_DeactivatedStaysOut ==
    [][\A u \in Users : ~users[u].isActive =>
          /\ ~users'[u].isActive
          /\ \A r \in Req :
                /\ (req[r].pc = "idle" /\ req'[r].pc # "idle" /\ req'[r].uid = u)
                      => req'[r].pc = "done" /\ req'[r].result = "Unauthorized"
                /\ (lreq[r].pc = "idle" /\ lreq'[r].pc # "idle" /\ lreq'[r].uid = u)
                      => lreq'[r].pc = "done" /\ lreq'[r].result = "Unauthorized"
                /\ (creq[r].pc = "idle" /\ creq'[r].pc # "idle" /\ creq'[r].uid = u)
                      => creq'[r].pc = "done" /\ creq'[r].result = "Unauthorized"
                /\ (req[r].uid = u /\ req[r].result = "Unauthorized")
                      => req'[r] = req[r]
                /\ (lreq[r].uid = u /\ lreq[r].result = "Unauthorized")
                      => lreq'[r] = lreq[r]
                /\ (creq[r].uid = u /\ creq[r].result = "Unauthorized")
                      => creq'[r] = creq[r]
                /\ ( \/ req'[r].uid = u /\ req'[r].result = "Unauthorized" /\ req'[r] # req[r]
                     \/ lreq'[r].uid = u /\ lreq'[r].result = "Unauthorized" /\ lreq'[r] # lreq[r]
                     \/ creq'[r].uid = u /\ creq'[r].result = "Unauthorized" /\ creq'[r] # creq[r] )
                      => <<users, txns, loans, cards>> = <<users', txns', loans', cards'>>
                /\ ( /\ req[r].pc = "create" /\ req'[r] # req[r]
                     /\ req[r].receiverId = u
                     /\ AmountValid(req[r].amount)
                     /\ ~(req[r].type = "transfer"
                            /\ req[r].amount > req[r].user.accountBalance) )
                      => req'[r].pc = "done" /\ req'[r].result = "NotFound"
      ]_vars

\* u1 has deactivated the account and a card request made with u1's token
\* afterwards has been answered Unauthorized
C23_Witness ==
    \E r1, r2 \in Req :
        /\ req[r1].pc = "done" /\ req[r1].route = "deactivate"
        /\ req[r1].result = "Deactivated"
        /\ ~users[req[r1].uid].isActive
        /\ creq[r2].pc = "done" /\ creq[r2].uid = req[r1].uid
        /\ creq[r2].result = "Unauthorized"
        /\ creq[r2].route = "toggle"

\* C24: a cancel of a transaction by a user who is not its sender, and an
\* update, cancel or toggle of a loan or card by a user who does not own it,
\* is answered AccessDenied and leaves the record as it was, whatever the
\* status of the record.
C24_NotOwnerDenied ==
    \A r \in Req :
        /\ ( /\ req[r].pc = "done" /\ req[r].route = "cancel"
             /\ req[r].result # "Unauthorized"
             /\ req[r].tid \in 1..Len(req[r].pre.txns)
             /\ req[r].pre.txns[req[r].tid].sender # req[r].uid
             /\ \A o \in Req : o > r => req[o].pc = "idle" )
           => /\ req[r].result = "AccessDenied"
              /\ txns[req[r].tid] = req[r].pre.txns[req[r].tid]
        /\ ( /\ lreq[r].pc = "done" /\ lreq[r].route \in {"update", "cancel"}
             /\ lreq[r].result # "Unauthorized"
             /\ lreq[r].lid \in 1..Len(lreq[r].pre)
             /\ lreq[r].pre[lreq[r].lid].user # lreq[r].uid
             /\ \A o \in Req : o > r => lreq[o].pc = "idle" )
           => /\ lreq[r].result = "AccessDenied"
              /\ loans[lreq[r].lid] = lreq[r].pre[lreq[r].lid]
        /\ ( /\ creq[r].pc = "done" /\ creq[r].route \in {"update", "cancel", "toggle"}
             /\ creq[r].route = "toggle" => creq[r].action \in {"block", "unblock"}
             /\ creq[r].cid \in 1..Len(creq[r].pre)
             /\ creq[r].pre[creq[r].cid].user # creq[r].uid
             /\ \A o \in Req : o > r => creq[o].pc = "idle" )
           => /\ creq[r].result = "AccessDenied"
              /\ cards[creq[r].cid] = creq[r].pre[creq[r].cid]

\* a user who owns neither has asked to cancel a closed loan and to block an
\* expired card, and both requests have been denied
C24_Witness ==
    \E r1, r2 \in Req :
        /\ lreq[r1].pc = "done" /\ lreq[r1].route = "cancel"
        /\ lreq[r1].lid \in 1..Len(lreq[r1].pre)
        /\ lreq[r1].pre[lreq[r1].lid].user # lreq[r1].uid
        /\ lreq[r1].pre[lreq[r1].lid].status = "closed"
        /\ lreq[r1].result = "AccessDenied"
        /\ creq[r2].pc = "done" /\ creq[r2].route = "toggle"
        /\ creq[r2].action = "block"
        /\ creq[r2].cid \in 1..Len(creq[r2].pre)
        /\ creq[r2].pre[creq[r2].cid].user # creq[r2].uid
        /\ creq[r2].pre[creq[r2].cid].status = "expired"
        /\ creq[r2].result = "AccessDenied"

\* C30: when the owner cancels a pending loan application the request is
\* answered with success, the loan is no longer pending, approved or active,
\* and a following valid application of the same user, who has no other
\* open loan, is accepted.
C30_CancelReopensApplication ==
    \A r \in Req :
        LET q == lreq[r] IN
        ( /\ q.pc = "done" /\ q.route = "cancel"
          /\ q.result # "Unauthorized"
          /\ q.lid \in 1..Len(q.pre)
          /\ q.pre[q.lid].user = q.uid
          /\ q.pre[q.lid].status = "pending"
          /\ ~(q.result = "InternalError" /\ q.at = "cancelSave") )
        => /\ q.result = "Cancelled"
           /\ loans[q.lid].status \notin OpenLoanStatuses
           /\ \A o \in Req :
                 ( /\ o > r
                   /\ AnsweredApplication(o)
                   /\ lreq[o].uid = q.uid
                   /\ OpenLoansOf(lreq[o].pre, q.uid) \subseteq {q.lid}
                   /\ ~(lreq[o].result = "InternalError" /\ lreq[o].at = "applySave") )
                 => lreq[o].result = "Created"

====
